---- MODULE Spec2Model ----
(***************************************************************************)
(* A model of the SignalR hub connection of philippseith/signalr:          *)
(*                                                                         *)
(*   - the text message format (frames ended by the record separator 30)   *)
(*     and the JSON hub protocol, in its two implementations:              *)
(*       JsonHubProtocol  (ReadMessage on a bytes.Buffer, src/unnamed/     *)
(*                         part_000) and                                   *)
(*       JSONHubProtocol  (ParseMessage on an io.Reader,                   *)
(*                         src/jsonhubprotocol.go);                        *)
(*   - defaultHubConnection (Start, IsConnected, Close, the send           *)
(*     operations and Receive), which is the second half of                *)
(*     src/signalr-go-server/pkg/signalr/invocation_test.go;               *)
(*   - streamClient (buildChannelArgument, receiveStreamItem,              *)
(*     receiveCompletionItem), src/unnamed/part_001, driven by the         *)
(*     connection's receive loop, and the invocation dispatcher that       *)
(*     answers every invocation with a Completion.                         *)
(*                                                                         *)
(* A byte stream is a sequence of tokens.  A token stands for the bytes of *)
(* one lexical unit of a frame: the opening brace, one member              *)
(* ("key":value), the closing brace, a newline, the record separator, or   *)
(* text that is no JSON.  Field b is the first byte of the unit, so the    *)
(* search for the delimiter is a search for b = 30.  A transport read      *)
(* returns any number of tokens, which is how a frame comes to be split    *)
(* over reads.                                                             *)
(***************************************************************************)
EXTENDS Integers, Sequences, FiniteSets, TLC

VARIABLES
    protocol,     \* the HubProtocol handed to newHubConnection
    Connected,    \* defaultHubConnection.Connected (int32, 0 or 1)
    wire,         \* every byte Connection.Write has accepted, in order
    easyWriter,   \* JSONHubProtocol.easyWriter: the buffer all writers share
    task,         \* per task: the operation it is executing and how far it got
    last,         \* the operation that returned last, with what it reported
    closeCalled,  \* Close has been called on this connection
    started,      \* number of operations started (bounded by MaxOps)
    writes,       \* number of Connection.Write calls that succeeded
    input,        \* the bytes the client sends, all of them
    pos,          \* how many of them Connection.Read has returned so far
    rpc,          \* where the receiving task is: "idle" or "reading"
    buf,          \* Receive: var buf bytes.Buffer
    data,         \* Receive: data[:n], the bytes of the last Connection.Read
    acc,          \* parseTextMessageFormat (io.Reader): data, the frame so far
    reads,        \* number of Connection.Read calls of the running receive
    rcall,        \* Connected and the bytes written when that receive began
    received,     \* what the receive calls returned, in order
    sent,         \* codec round trip: the message handed to WriteMessage
    decoded,      \* codec round trip: what reading the written bytes returned
    upstreamChannels, \* streamClient.upstreamChannels: stream id -> channel
    chans,        \* the channels reflect.MakeChan has made, by handle
    stask,        \* per task of the stream client: where it is and with what
    slast,        \* the stream client operation that returned last
    streamOps,    \* number of stream client operations begun
    invoked,      \* the hub methods that have been invoked, in order
    calls,        \* the invocations the dispatcher has handled, in order
    trace         \* stream items and completions as they arrived, and deliveries

vars == <<protocol, Connected, wire, easyWriter, task, last, closeCalled,
          started, writes, input, pos, rpc, buf, data, acc, reads, rcall,
          received, sent, decoded, upstreamChannels, chans, stask, slast,
          streamOps, invoked, calls, trace>>

connVars  == <<Connected, wire, easyWriter, task, last, closeCalled, started,
               writes>>
recvVars  == <<input, pos, rpc, buf, data, acc, reads, rcall, received>>
codecVars == <<sent, decoded>>
streamVars == <<upstreamChannels, chans, stask, slast, streamOps, invoked,
                calls, trace>>

-----------------------------------------------------------------------------
(* Bytes *)

\* The ASCII record separator that ends every frame.
RS == 30

Tok(b, k, j, n, s, l) == [b |-> b, k |-> k, j |-> j, n |-> n, s |-> s, l |-> l]

Delim   == Tok(RS, "", "", 0, "", <<>>)
LBrace  == Tok(123, "", "", 0, "", <<>>)
RBrace  == Tok(125, "", "", 0, "", <<>>)
Newline == Tok(10, "", "", 0, "", <<>>)
\* Text that is no JSON, as  arguments[CanNotParse]  in the Invalid json test.
Garbage == Tok(97, "", "", 0, "", <<>>)

\* "k":v
Member(k, v) == Tok(34, k, v.j, v.n, v.s, v.l)

\* bytes.IndexByte, 1-based; 0 when c does not occur.
IndexByte(p, c) ==
    IF \E i \in 1..Len(p) : p[i].b = c
    THEN CHOOSE i \in 1..Len(p) : p[i].b = c /\ \A h \in 1..(i - 1) : p[h].b # c
    ELSE 0

Min(a, b) == IF a < b THEN a ELSE b

-----------------------------------------------------------------------------
(* JSON values and the Go values of interface{} fields *)

JNull    == [j |-> "null", n |-> 0, s |-> "", l |-> <<>>]
JNum(n)  == [j |-> "num", n |-> n, s |-> "", l |-> <<>>]
JStr(s)  == [j |-> "str", n |-> 0, s |-> s, l |-> <<>>]
JBool(b) == [j |-> "bool", n |-> IF b THEN 1 ELSE 0, s |-> "", l |-> <<>>]
\* An array; its elements are scalars [j, n, s].
JArr(l)  == [j |-> "arr", n |-> 0, s |-> "", l |-> l]

Scalar(v) == [j |-> v.j, n |-> v.n, s |-> v.s]
Value(e)  == [j |-> e.j, n |-> e.n, s |-> e.s, l |-> <<>>]

GoNil       == [t |-> "nil", j |-> "", n |-> 0, s |-> "", l |-> <<>>]
GoInt(n)    == [t |-> "int", j |-> "", n |-> n, s |-> "", l |-> <<>>]
GoFloat(n)  == [t |-> "float64", j |-> "", n |-> n, s |-> "", l |-> <<>>]
GoString(s) == [t |-> "string", j |-> "", n |-> 0, s |-> s, l |-> <<>>]
GoBool(b)   == [t |-> "bool", j |-> "", n |-> IF b THEN 1 ELSE 0, s |-> "", l |-> <<>>]
GoSlice(l)  == [t |-> "[]interface {}", j |-> "", n |-> 0, s |-> "", l |-> l]
\* json.RawMessage: the still encoded JSON text of v.
GoRaw(v)    == [t |-> "json.RawMessage", j |-> v.j, n |-> v.n, s |-> v.s, l |-> v.l]

\* encoding/json on a value held in an interface{}.
ToJSON(g) ==
    CASE g.t = "nil"             -> JNull
      [] g.t = "int"             -> JNum(g.n)
      [] g.t = "float64"         -> JNum(g.n)
      [] g.t = "string"          -> JStr(g.s)
      [] g.t = "bool"            -> JBool(g.n = 1)
      [] g.t = "[]interface {}"  -> JArr(g.l)
      [] OTHER                   -> [j |-> g.j, n |-> g.n, s |-> g.s, l |-> g.l]

\* encoding/json decoding into an interface{}: every number is a float64.
FromJSON(v) ==
    CASE v.j = "null" -> GoNil
      [] v.j = "num"  -> GoFloat(v.n)
      [] v.j = "str"  -> GoString(v.s)
      [] v.j = "bool" -> GoBool(v.n = 1)
      [] OTHER        -> GoSlice(v.l)

-----------------------------------------------------------------------------
(* Hub messages *)

\* One record shape for every message struct; a field a struct does not have
\* keeps its zero value.  kind is the Go type of the value.
Msg(kind, Type, Target, InvocationID, Arguments, StreamIds, Item, Result, Error, AllowReconnect) ==
    [kind |-> kind, Type |-> Type, Target |-> Target,
     InvocationID |-> InvocationID, Arguments |-> Arguments,
     StreamIds |-> StreamIds, Item |-> Item, Result |-> Result,
     Error |-> Error, AllowReconnect |-> AllowReconnect]

Zero(kind) == Msg(kind, 0, "", "", <<>>, <<>>, GoNil, GoNil, "", FALSE)

\* The nil interface{} a read returns with an error.
NilMessage == Zero("nil")

hubMessage(Type) == [Zero("hubMessage") EXCEPT !.Type = Type]

invocationMessage(Type, Target, InvocationID, Arguments, StreamIds) ==
    [Zero("invocationMessage") EXCEPT !.Type = Type, !.Target = Target,
        !.InvocationID = InvocationID, !.Arguments = Arguments,
        !.StreamIds = StreamIds]

sendOnlyHubInvocationMessage(Target, Arguments) ==
    [Zero("sendOnlyHubInvocationMessage") EXCEPT !.Type = 1,
        !.Target = Target, !.Arguments = Arguments]

streamItemMessage(InvocationID, Item) ==
    [Zero("streamItemMessage") EXCEPT !.Type = 2,
        !.InvocationID = InvocationID, !.Item = Item]

completionMessageWithoutID(InvocationID, Result, Error) ==
    [Zero("completionMessage") EXCEPT !.Type = 3,
        !.Result = Result, !.Error = Error]
completionMessage(InvocationID, Result, Error) ==
    [Zero("completionMessage") EXCEPT !.Type = 3,
        !.InvocationID = InvocationID, !.Result = Result, !.Error = Error]

cancelInvocationMessage(InvocationID) ==
    [Zero("cancelInvocationMessage") EXCEPT !.Type = 5,
        !.InvocationID = InvocationID]

closeMessage(Error, AllowReconnect) ==
    [Zero("closeMessage") EXCEPT !.Type = 7, !.Error = Error,
        !.AllowReconnect = AllowReconnect]

\* The JSON members each struct has, in the order of its fields.
FieldsOf(kind) ==
    CASE kind = "hubMessage" -> <<"type">>
      [] kind \in {"invocationMessage", "jsonInvocationMessage"} ->
            <<"type", "target", "invocationId", "arguments", "streamIds">>
      [] kind = "sendOnlyHubInvocationMessage" ->
            <<"type", "target", "arguments">>
      [] kind = "streamItemMessage" -> <<"type", "invocationId", "item">>
      [] kind = "completionMessage" ->
            <<"type", "invocationId", "result", "error">>
      [] kind = "cancelInvocationMessage" -> <<"type", "invocationId">>
      [] kind = "closeMessage" -> <<"type", "error", "allowReconnect">>
      [] OTHER -> <<>>

MapSeq(f(_), q) == [i \in 1..Len(q) |-> f(q[i])]

ElemJSON(g) == Scalar(ToJSON(g))
StrJSON(s)  == Scalar(JStr(s))

\* The JSON value of member key of message m.
FieldJSON(m, key) ==
    CASE key = "type"           -> JNum(m.Type)
      [] key = "target"         -> JStr(m.Target)
      [] key = "invocationId"   -> JStr(m.InvocationID)
      [] key = "arguments"      -> JArr(MapSeq(ElemJSON, m.Arguments))
      [] key = "streamIds"      -> JArr(MapSeq(StrJSON, m.StreamIds))
      [] key = "item"           -> ToJSON(m.Item)
      [] key = "result"         -> ToJSON(m.Result)
      [] key = "error"          -> JStr(m.Error)
      [] OTHER                  -> JBool(m.AllowReconnect)

\* `json:",omitempty"`: the member is left out when the field is empty.
OmitEmpty(m, key) ==
    \/ key = "streamIds" /\ m.StreamIds = <<>>
    \/ key = "result" /\ m.Result = GoNil
    \/ key = "error" /\ m.Error = "" /\ m.kind = "completionMessage"

RECURSIVE Members(_, _)
Members(m, keys) ==
    IF keys = <<>> THEN <<>>
    ELSE (IF OmitEmpty(m, Head(keys)) THEN <<>>
          ELSE <<Member(Head(keys), FieldJSON(m, Head(keys)))>>)
         \o Members(m, Tail(keys))

\* The JSON object of a message: json.Marshal / MarshalEasyJSON.
Marshal(m) == <<LBrace>> \o Members(m, FieldsOf(m.kind)) \o <<RBrace>>

NotSpace(x) == x.b # 10

\* Whether the bytes are one JSON object (white space between tokens is
\* insignificant; no bytes at all are "unexpected end of JSON input").
Valid(d) ==
    LET w == SelectSeq(d, NotSpace) IN
    /\ Len(w) >= 2
    /\ w[1].b = 123
    /\ w[Len(w)].b = 125
    /\ \A i \in 2..(Len(w) - 1) : w[i].b = 34

Has(d, key) == \E i \in 1..Len(d) : d[i].b = 34 /\ d[i].k = key

\* The member the decoder keeps for key: the last one in the object.
Get(d, key) ==
    LET i == CHOOSE h \in 1..Len(d) :
                 /\ d[h].b = 34 /\ d[h].k = key
                 /\ \A g \in (h + 1)..Len(d) : ~(d[g].b = 34 /\ d[g].k = key)
    IN [j |-> d[i].j, n |-> d[i].n, s |-> d[i].s, l |-> d[i].l]

\* The JSON type a struct field accepts ("any" for interface{}).
Accepts(key) ==
    CASE key = "type" -> "num"
      [] key \in {"target", "invocationId", "error"} -> "str"
      [] key \in {"arguments", "streamIds"} -> "arr"
      [] key = "allowReconnect" -> "bool"
      [] OTHER -> "any"

IsStr(e) == e.j = "str"

\* A member the field cannot hold: an UnmarshalTypeError, the field stays zero.
Mismatch(d, key) ==
    /\ Has(d, key)
    /\ Get(d, key).j # "null"
    /\ Accepts(key) # "any"
    /\ \/ Get(d, key).j # Accepts(key)
       \/ key = "streamIds" /\ \E i \in 1..Len(Get(d, key).l) : ~IsStr(Get(d, key).l[i])

Usable(d, key, keys) ==
    /\ \E i \in 1..Len(keys) : keys[i] = key
    /\ Has(d, key)
    /\ Get(d, key).j # "null"
    /\ ~Mismatch(d, key)

RawElem(e) == GoRaw(Value(e))
StrElem(e) == e.s

\* json.Unmarshal(data, &v) / v.UnmarshalJSON(data) for v a zero struct of the
\* given kind: [err, msg].
UnmarshalJSON(d, kind) ==
    LET keys == FieldsOf(kind)
        z == Zero(kind)
    IN  IF ~Valid(d) THEN [err |-> "SyntaxError", msg |-> z]
        ELSE
          [err |-> IF \E i \in 1..Len(keys) : Mismatch(d, keys[i])
                   THEN "UnmarshalTypeError" ELSE "nil",
           msg |->
             Msg(kind,
                 IF Usable(d, "type", keys) THEN Get(d, "type").n ELSE 0,
                 IF Usable(d, "target", keys) THEN Get(d, "target").s ELSE "",
                 IF Usable(d, "invocationId", keys)
                    THEN Get(d, "invocationId").s ELSE "",
                 IF Usable(d, "arguments", keys)
                    THEN MapSeq(RawElem, Get(d, "arguments").l) ELSE <<>>,
                 IF Usable(d, "streamIds", keys)
                    THEN MapSeq(StrElem, Get(d, "streamIds").l) ELSE <<>>,
                 IF Usable(d, "item", keys)
                    THEN FromJSON(Get(d, "item")) ELSE GoNil,
                 IF Usable(d, "result", keys)
                    THEN FromJSON(Get(d, "result")) ELSE GoNil,
                 IF Usable(d, "error", keys) THEN Get(d, "error").s ELSE "",
                 IF Usable(d, "allowReconnect", keys)
                    THEN Get(d, "allowReconnect").n = 1 ELSE FALSE)]

-----------------------------------------------------------------------------
(* JsonHubProtocol: ReadMessage and WriteMessage on a bytes.Buffer *)

\* bytes.Buffer.ReadBytes(delim): the bytes up to and including the first
\* delim; without one, everything that is buffered and io.EOF.  What it
\* returns is gone from the buffer.
ReadBytes(b, delim) ==
    LET i == IndexByte(b, delim) IN
    IF i = 0 THEN [line |-> b, rest |-> <<>>, err |-> "EOF"]
    ELSE [line |-> SubSeq(b, 1, i), rest |-> SubSeq(b, i + 1, Len(b)),
          err |-> "nil"]

\* parseTextMessageFormat(buf *bytes.Buffer): [data, err] and the buffer after.
parseTextMessageFormatBuf(b) ==
    LET r == ReadBytes(b, RS) IN
    IF r.err # "nil" THEN [data |-> r.line, err |-> r.err, buf |-> r.rest]
    ELSE [data |-> SubSeq(r.line, 1, Len(r.line) - 1), err |-> r.err,
          buf |-> r.rest]

\* The struct ReadMessage decodes a frame of the given type into.
ReadKind(Type) ==
    CASE Type \in {1, 4} -> "jsonInvocationMessage"
      [] Type = 2 -> "streamItemMessage"
      [] Type = 3 -> "completionMessage"
      [] Type = 5 -> "cancelInvocationMessage"
      [] OTHER -> "hubMessage"

\* The invocationMessage built from a decoded jsonInvocationMessage.
AsInvocation(m) ==
    IF m.kind = "jsonInvocationMessage"
    THEN [m EXCEPT !.kind = "invocationMessage"] ELSE m

\* JsonHubProtocol.ReadMessage(buf): [message, complete, err], the buffer
\* after the call and the frame it handed to the decoder.
ReadMessage(b) ==
    LET p == parseTextMessageFormatBuf(b) IN
    IF p.err = "EOF"
    THEN [message |-> NilMessage, complete |-> FALSE, err |-> p.err,
          buf |-> p.buf, frame |-> p.data]
    ELSE
      LET h == UnmarshalJSON(p.data, "hubMessage") IN
      IF h.err # "nil"
      THEN [message |-> NilMessage, complete |-> TRUE, err |-> h.err,
            buf |-> p.buf, frame |-> p.data]
      ELSE
        LET kind == ReadKind(h.msg.Type)
            u == UnmarshalJSON(p.data, kind)
        IN [message |-> AsInvocation(u.msg), complete |-> TRUE,
            err |-> IF kind = "hubMessage" THEN "nil" ELSE u.err,
            buf |-> p.buf, frame |-> p.data]

\* JsonHubProtocol.WriteMessage: the bytes of its one writer.Write call.
\* json.Encoder.Encode ends the object with a newline.
WriteBytes(m) == Marshal(m) \o <<Newline>> \o <<Delim>>

-----------------------------------------------------------------------------
(* JSONHubProtocol: ParseMessage on an io.Reader, WriteMessage on easyWriter *)

\* &jsonError{raw, err}; the raw text is the frame, kept beside the error.
jsonError(e) ==
    CASE e = "SyntaxError" -> "jsonError(SyntaxError)"
      [] e = "UnmarshalTypeError" -> "jsonError(UnmarshalTypeError)"
      [] OTHER -> e

\* The struct ParseMessage decodes a frame of the given type into.
ParseKind(Type) ==
    CASE Type \in {1, 4} -> "jsonInvocationMessage"
      [] Type = 2 -> "streamItemMessage"
      [] Type = 3 -> "completionMessage"
      [] Type = 5 -> "cancelInvocationMessage"
      [] Type = 7 -> "closeMessage"
      [] OTHER -> "hubMessage"

\* JSONHubProtocol.ParseMessage once parseTextMessageFormat has returned the
\* frame d: [message, err].
ParseData(d) ==
    LET h == UnmarshalJSON(d, "hubMessage") IN
    IF h.err # "nil"
    THEN [message |-> NilMessage, err |-> jsonError(h.err)]
    ELSE
      LET kind == ParseKind(h.msg.Type)
          u == UnmarshalJSON(d, kind)
      IN [message |-> AsInvocation(u.msg),
          err |-> IF kind = "hubMessage" THEN "nil" ELSE jsonError(u.err)]

\* One turn of the loop of parseTextMessageFormat(reader io.Reader) with p
\* the bytes reader.Read returned and d the frame so far: whether the frame is
\* complete, the frame, and how many bytes of p lie behind the delimiter.
ScanChunk(d, p) ==
    LET i == IndexByte(p, RS) IN
    IF i # 0
    THEN [found |-> TRUE, data |-> d \o SubSeq(p, 1, i - 1),
          behind |-> Len(p) - i]
    ELSE [found |-> FALSE, data |-> d \o p, behind |-> 0]

\* JSONHubProtocol.WriteMessage up to BuildBytes, on the shared easyWriter w.
MarshalEasyJSON(w, m) == w \o Marshal(m)
RawByte(w, c) == w \o <<Tok(c, "", "", 0, "", <<>>)>>

-----------------------------------------------------------------------------
(* The receive path *)

\* Receive: var data = make([]byte, 1<<12)
DataCap == 4096
\* parseTextMessageFormat(reader): p := make([]byte, 1024)
PCap == 1024

\* What one receive call returned: the message and the error, and beside them
\* the frame that was decoded, the offset in the input just behind the frame's
\* delimiter (the offset read so far when there was no frame), the number of
\* bytes that had been read beyond that delimiter, the number of transport
\* reads of the call, and Connected and the number of bytes written when the
\* call began (conn0, wlen0) and when it returned (conn, wlen).
Rec(message, err, frame, end, left, st) ==
    [message |-> message, err |-> err, frame |-> frame, end |-> end,
     left |-> left, nreads |-> st.reads, conn0 |-> st.rcall.conn,
     wlen0 |-> st.rcall.wlen, conn |-> Connected, wlen |-> Len(wire)]

\* The receiving task as a record; a call that begins notes the state of the
\* connection.
RecvState ==
    [pos |-> pos, rpc |-> rpc, buf |-> buf, data |-> data, acc |-> acc,
     reads |-> reads, received |-> received,
     rcall |-> IF rpc = "idle" THEN [conn |-> Connected, wlen |-> Len(wire)]
               ELSE rcall]

\* The receiving task after a call has returned r: its locals are gone.
Returned(st, r) ==
    [st EXCEPT !.rpc = "idle", !.buf = <<>>, !.data = <<>>, !.acc = <<>>,
               !.reads = 0, !.received = Append(st.received, r)]

\* defaultHubConnection.Receive, one turn of its loop; the first turn of a
\* call finds buf empty and n = 0.  k is the number of bytes Connection.Read
\* returns if it is called; at the end of the input it returns io.EOF.
ReceiveTurn(st, k) ==
    LET r == ReadMessage(st.buf) IN
    IF ~r.complete
    THEN
      LET refilled == r.buf \o st.data IN
      IF st.pos = Len(input)
      THEN Returned(st, Rec(NilMessage, "EOF", <<>>, st.pos, 0, st))
      ELSE
        LET chunk == SubSeq(input, st.pos + 1, st.pos + k) IN
        [st EXCEPT !.pos = st.pos + k, !.rpc = "reading",
                   !.buf = refilled \o chunk, !.data = chunk,
                   !.reads = st.reads + 1]
    ELSE
      Returned(st, Rec(r.message, r.err, r.frame, st.pos - Len(r.buf),
                       Len(r.buf), st))

\* JSONHubProtocol.ParseMessage reading from the connection, one turn of the
\* loop of parseTextMessageFormat.
ParseTurn(st, k) ==
    IF st.pos = Len(input)
    THEN Returned(st, Rec(NilMessage, "EOF", <<>>, st.pos, 0, st))
    ELSE
      LET c == ScanChunk(st.acc, SubSeq(input, st.pos + 1, st.pos + k))
          read == [st EXCEPT !.pos = st.pos + k, !.rpc = "reading",
                             !.reads = st.reads + 1]
      IN
      IF c.found
      THEN
        LET m == ParseData(c.data) IN
        Returned(read, Rec(m.message, m.err, c.data, read.pos - c.behind,
                           c.behind, read))
      ELSE [read EXCEPT !.acc = c.data]

\* The sizes a transport read may have when the reader offers cap bytes.
ChunkSizes(st, cap) ==
    IF st.pos = Len(input) THEN {0}
    ELSE 1..Min(Len(input) - st.pos, cap)

\* One turn of the receive call of the connection's protocol.
Turn(st, k) ==
    IF protocol = "JsonHubProtocol" THEN ReceiveTurn(st, k)
    ELSE ParseTurn(st, k)

Cap == IF protocol = "JsonHubProtocol" THEN DataCap ELSE PCap

\* The loop that calls Receive goes on until the transport ends.
SawEOF(q) == \E i \in 1..Len(q) : q[i].err = "EOF"

SetRecv(st) ==
    /\ pos' = st.pos
    /\ rpc' = st.rpc
    /\ buf' = st.buf
    /\ data' = st.data
    /\ acc' = st.acc
    /\ reads' = st.reads
    /\ rcall' = st.rcall
    /\ received' = st.received

Receive ==
    /\ protocol = "JsonHubProtocol"
    /\ ~SawEOF(received)
    /\ UNCHANGED <<streamVars, protocol, input, connVars, codecVars>>
    /\ \E k \in ChunkSizes(RecvState, DataCap) :
          SetRecv(ReceiveTurn(RecvState, k))

ParseMessage ==
    /\ protocol = "JSONHubProtocol"
    /\ ~SawEOF(received)
    /\ UNCHANGED <<streamVars, protocol, input, connVars, codecVars>>
    /\ \E k \in ChunkSizes(RecvState, PCap) :
          SetRecv(ParseTurn(RecvState, k))

\* The same input with every transport read as large as it can be.
RECURSIVE RunWhole(_)
RunWhole(st) ==
    IF SawEOF(st.received) THEN st.received
    ELSE RunWhole(Turn(st, Min(Len(input) - st.pos, Cap)))

\* The frames the receive calls returned.
IsFrame(r) == r.err # "EOF"
FrameOf(r) == r.frame
Frames(q) == MapSeq(FrameOf, SelectSeq(q, IsFrame))

-----------------------------------------------------------------------------
(* defaultHubConnection: Start, IsConnected, Close and the send operations *)

\* Task 0 owns the connection: it alone calls Start and Close, one after the
\* other.  Every task may send.
NumSenders == 1
Tasks == 0..NumSenders
\* Operations started in one behaviour.
MaxOps == 2

SendOps == {"SendInvocation", "StreamItem", "Completion", "Ping"}

\* atomic.CompareAndSwapInt32(&v, old, new): the value of v afterwards.
CompareAndSwapInt32(v, old, new) == IF v = old THEN new ELSE v

\* Start: atomic.CompareAndSwapInt32(&c.Connected, 0, 1)
StartConnectedSwapped(c) == CompareAndSwapInt32(c, 1, 0)
StartConnected(c) == CompareAndSwapInt32(c, 0, 1)

\* IsConnected: atomic.LoadInt32(&c.Connected) == 1
IsConnected == Connected = 1

\* Close: atomic.StoreInt32(&c.Connected, 0)
CloseConnectedKept(c) == c
CloseConnected(c) == 0

\* What an operation hands back to its caller when WriteMessage returned
\* werr: Close and the send operations have no result, and drop werr.
ReportedWriteError(werr) == werr
Reported(werr) == "nothing"

\* The transport after Connection.Write(b): it takes all of b or fails.
Written(w, b, ok) == IF ok THEN w \o b ELSE w

IdleTask == [op |-> "none", pc |-> "idle", b |-> <<>>, before |-> 0,
             closedAtCall |-> FALSE]

\* The record of an operation that has returned: the value of Connected when
\* it was called and when it returned, whether its write succeeded, what it
\* reported, how many bytes it wrote, whether the connection was closed when
\* it was called, and whether it left Connected, the transport and the shared
\* writer as they were.
Done(op, t, before, after, ok, n, closedAtCall, same) ==
    [op |-> op, task |-> t, before |-> before, after |-> after,
     writeOk |-> ok, reported |-> Reported(IF ok THEN "nil" ELSE "TransportError"),
     wrote |-> n, closedAtCall |-> closedAtCall, same |-> same]

NoOp == Done("none", 0, 0, 0, TRUE, 0, FALSE, TRUE)

Start ==
    /\ task[0].pc = "idle"
    /\ started < MaxOps
    /\ started' = started + 1
    /\ Connected' = StartConnected(Connected)
    /\ UNCHANGED <<streamVars, protocol, wire, easyWriter, task, closeCalled, writes,
                   recvVars, codecVars>>
    /\ last' = Done("Start", 0, Connected, Connected', TRUE, 0,
                    closeCalled /\ Connected = 0,
                    /\ Connected' = Connected
                    /\ wire' = wire
                    /\ easyWriter' = easyWriter
                    /\ task' = task)

\* Task t calls an operation that writes message m.  With JsonHubProtocol the
\* message is encoded in a buffer of the call and goes out in one Write; with
\* JSONHubProtocol it is appended to the shared easyWriter, and the call goes
\* on in WriteRawByte, WriteBuildBytes and WriteWrite.  Nothing in the
\* connection keeps two tasks from being inside WriteMessage at once.
Call(t, op, m) ==
    /\ task[t].pc = "idle"
    /\ started < MaxOps
    /\ started' = started + 1
    /\ Connected' = IF op = "Close" THEN CloseConnected(Connected) ELSE Connected
    /\ closeCalled' = (closeCalled \/ op = "Close")
    /\ UNCHANGED <<streamVars, protocol, recvVars, codecVars>>
    /\ IF protocol = "JsonHubProtocol"
       THEN \E ok \in BOOLEAN :
               /\ wire' = Written(wire, WriteBytes(m), ok)
               /\ writes' = IF ok THEN writes + 1 ELSE writes
               /\ last' = Done(op, t, Connected, Connected', ok,
                               Len(wire') - Len(wire),
                               closeCalled /\ Connected = 0, FALSE)
               /\ UNCHANGED <<easyWriter, task>>
       ELSE /\ easyWriter' = MarshalEasyJSON(easyWriter, m)
            /\ task' = [task EXCEPT ![t] =
                          [op |-> op, pc |-> "marshalled", b |-> <<>>,
                           before |-> Connected,
                           closedAtCall |-> closeCalled /\ Connected = 0]]
            /\ UNCHANGED <<wire, writes, last>>

\* v.easyWriter.RawByte(30)
WriteRawByte(t) ==
    /\ task[t].pc = "marshalled"
    /\ easyWriter' = RawByte(easyWriter, RS)
    /\ task' = [task EXCEPT ![t].pc = "delimited"]
    /\ UNCHANGED <<streamVars, protocol, Connected, wire, last, closeCalled, started,
                   writes, recvVars, codecVars>>

\* b := v.easyWriter.Buffer.BuildBytes(): everything in the buffer, which is
\* empty afterwards.
WriteBuildBytes(t) ==
    /\ task[t].pc = "delimited"
    /\ task' = [task EXCEPT ![t].pc = "built", ![t].b = easyWriter]
    /\ easyWriter' = <<>>
    /\ UNCHANGED <<streamVars, protocol, Connected, wire, last, closeCalled, started,
                   writes, recvVars, codecVars>>

\* _, err := writer.Write(b); the operation returns.
WriteWrite(t) ==
    /\ task[t].pc = "built"
    /\ \E ok \in BOOLEAN :
          /\ wire' = Written(wire, task[t].b, ok)
          /\ writes' = IF ok THEN writes + 1 ELSE writes
          /\ last' = Done(task[t].op, t, task[t].before, Connected, ok,
                          Len(wire') - Len(wire), task[t].closedAtCall, FALSE)
    /\ task' = [task EXCEPT ![t] = IdleTask]
    /\ UNCHANGED <<streamVars, protocol, Connected, easyWriter, closeCalled, started,
                   recvVars, codecVars>>

\* The inputs of the operations.
ErrorTexts == {"x"}
Ids == {"1"}
Items == {GoFloat(1)}

Close == \E e \in ErrorTexts : Call(0, "Close", closeMessage(e, TRUE))

SendInvocation ==
    \E t \in Tasks :
        Call(t, "SendInvocation",
             sendOnlyHubInvocationMessage("t", <<GoFloat(1)>>))

StreamItem ==
    \E t \in Tasks, id \in Ids, item \in Items :
        Call(t, "StreamItem", streamItemMessage(id, item))

Completion ==
    \E t \in Tasks, id \in Ids, e \in ErrorTexts :
        Call(t, "Completion",
             completionMessage(id, GoNil, e))

Ping == \E t \in Tasks : Call(t, "Ping", hubMessage(6))

WriteMessageStep ==
    \E t \in Tasks : WriteRawByte(t) \/ WriteBuildBytes(t) \/ WriteWrite(t)

Protocols == {"JsonHubProtocol", "JSONHubProtocol"}

InitWriters ==
    /\ wire = <<>>
    /\ easyWriter = <<>>
    /\ task = [t \in Tasks |-> IdleTask]
    /\ last = NoOp
    /\ closeCalled = FALSE
    /\ started = 0
    /\ writes = 0

InitRecv ==
    /\ pos = 0
    /\ rpc = "idle"
    /\ buf = <<>>
    /\ data = <<>>
    /\ acc = <<>>
    /\ reads = 0
    /\ rcall = [conn |-> 0, wlen |-> 0]
    /\ received = <<>>

InitCodec ==
    /\ sent = NilMessage
    /\ decoded = <<>>

\* The tasks that call the stream client; task 1 is the connection's receive
\* loop, which dispatches invocations and routes stream items and completions.
StreamTasks == {1}

\* The empty map of make(map[string]reflect.Value).
EmptyRegistry == [id \in {} |-> 0]

\* A reflect.Type: its Kind, and for a channel its ChanDir and the name of its
\* element type.
ChanOf(dir, elem) == [kind |-> "chan", dir |-> dir, elem |-> elem]
TypeNamed(kind) == [kind |-> kind, dir |-> "", elem |-> ""]

\* A task that is in no operation of the stream client.
IdleStream ==
    [pc |-> "idle", id |-> "", ch |-> 0, val |-> GoNil, item |-> GoNil,
     inv |-> NilMessage, params |-> <<>>, i |-> 0, chanCount |-> 0,
     before |-> EmptyRegistry, chansBefore |-> <<>>]

\* The record of an operation of the stream client that has returned: the
\* stream id it was about, the argument type, stream index and declared stream
\* ids of a binding call, what it returned (the channel as a handle, 0 for the
\* zero Value), the item routed and the channel and value of the send it
\* made (0 when it sent nothing), and the registry and the channels as they
\* were when it was called.
StreamDone(op, id, argType, chanCount, ids, arg, streaming, err, item, sentTo, val, before, chansBefore) ==
    [op |-> op, id |-> id, argType |-> argType, chanCount |-> chanCount,
     ids |-> ids, arg |-> arg, streaming |-> streaming, err |-> err,
     item |-> item, sentTo |-> sentTo, val |-> val, before |-> before,
     chansBefore |-> chansBefore]

NoStreamOp ==
    StreamDone("none", "", TypeNamed(""), 0, <<>>, 0, FALSE, "nil", GoNil, 0,
               GoNil, EmptyRegistry, <<>>)

\* newStreamClient(), and no hub method invoked yet.
InitStream ==
    /\ upstreamChannels = EmptyRegistry
    /\ chans = <<>>
    /\ stask = [t \in StreamTasks |-> IdleStream]
    /\ slast = NoStreamOp
    /\ streamOps = 0
    /\ invoked = <<>>
    /\ calls = <<>>
    /\ trace = <<>>

\* The connection and the tasks that use it; the client sends nothing.
Init ==
    /\ protocol \in Protocols
    /\ input = <<>>
    /\ Connected = 0
    /\ InitWriters
    /\ InitRecv
    /\ InitCodec
    /\ InitStream

Next ==
    \/ Start
    \/ Close
    \/ SendInvocation
    \/ StreamItem
    \/ Completion
    \/ Ping
    \/ WriteMessageStep

Spec == Init /\ [][Next]_vars

-----------------------------------------------------------------------------
(* The connection's state and its writes: claims C3 to C8 *)

\* C3: Closed is terminal: once Close has been called on a connection,
\* IsConnected never returns true again, whatever is called afterwards.
\* The code has one flag for Idle and Closed, and Start sets it from 0 to 1.
ClosedIsTerminal == closeCalled => ~IsConnected

\* C4: when the write to the transport fails during SendInvocation,
\* StreamItem, Completion or Ping, the operation reports a transport failure
\* and the connection is closed afterwards (IsConnected returns false).
FailedSendReportsAndCloses ==
    (last.op \in SendOps /\ ~last.writeOk)
        => (last.reported = "TransportError" /\ last.after = 0)

\* C5: after the connection has reached Closed, no send operation
\* (SendInvocation, StreamItem, Completion, Ping) writes any bytes to the
\* transport.
NoWriteAfterClosed ==
    (last.op \in SendOps /\ last.closedAtCall) => last.wrote = 0

\* The frames on the transport: the bytes before each delimiter.
RECURSIVE SplitFrames(_)
SplitFrames(w) ==
    LET i == IndexByte(w, RS) IN
    IF i = 0 THEN <<>>
    ELSE <<SubSeq(w, 1, i - 1)>> \o SplitFrames(SubSeq(w, i + 1, Len(w)))

\* C6: when two or more tasks call send operations on the same connection
\* concurrently, the bytes that reach the transport are a concatenation of
\* whole frames: every frame is one message, unmixed with another's bytes,
\* followed by one delimiter, and there is one frame per message written.
\* (Stated of the behaviours in which only send operations have written.)
WrittenFramesAreWhole ==
    ~closeCalled =>
        /\ wire = <<>> \/ wire[Len(wire)].b = RS
        /\ \A i \in 1..Len(SplitFrames(wire)) : Valid(SplitFrames(wire)[i])
        /\ Len(SplitFrames(wire)) = writes

\* C7: Close called on a Connected connection leaves it not connected whether
\* or not writing the Close message succeeds; a failed write of the Close
\* message is not reported to the caller and nothing further is written.
CloseLeavesNotConnected ==
    (last.op = "Close" /\ last.before = 1)
        => /\ last.after = 0
           /\ last.reported = "nothing"
           /\ ~last.writeOk => last.wrote = 0

\* A Close on a Connected connection whose write of the Close message failed.
CloseWithFailedWrite ==
    last.op = "Close" /\ last.before = 1 /\ ~last.writeOk

\* C8: Start moves an Idle connection to Connected, and Start on a connection
\* that is already Connected changes nothing.
StartConnectsOnce ==
    last.op = "Start"
        => /\ last.after = 1
           /\ last.before = 1 => last.same

\* A Start on a connection that an earlier Start had connected.
StartOnConnected == last.op = "Start" /\ last.before = 1 /\ last.after = 1

-----------------------------------------------------------------------------
(* The receive path on its own: claims C1, C2 and C10 *)

\* Frames in one input.
MaxFrames == 2

\* A frame that is no JSON, as the one of the Invalid json test.
BadFrame == <<LBrace, Member("type", JNum(1)), Garbage, RBrace>>

\* A well-formed frame whose type is none of the protocol's message types.
UnknownType == 9
UnknownFrame == Marshal(hubMessage(UnknownType))

FrameSet ==
    {Marshal(hubMessage(6)), Marshal(cancelInvocationMessage("1")), BadFrame,
     UnknownFrame}

\* An input may end inside a frame.
Tails == {<<>>, <<LBrace>>}

RECURSIVE FramesInRow(_)
FramesInRow(n) ==
    IF n = 0 THEN {<<>>}
    ELSE {s \o f \o <<Delim>> : s \in FramesInRow(n - 1), f \in FrameSet}

Inputs ==
    {s \o t : s \in UNION {FramesInRow(n) : n \in 1..MaxFrames}, t \in Tails}

\* A connection, started or not, whose client sends one of the inputs and then
\* ends the stream; nothing but the receive path acts.
InitRecvOnly ==
    /\ protocol \in Protocols
    /\ input \in Inputs
    /\ Connected \in {0, 1}
    /\ InitWriters
    /\ InitRecv
    /\ InitCodec
    /\ InitStream

NextRecv ==
    \/ Receive
    \/ ParseMessage

SpecRecv == InitRecvOnly /\ [][NextRecv]_vars

FreshRecv ==
    [pos |-> 0, rpc |-> "idle", buf |-> <<>>, data |-> <<>>, acc |-> <<>>,
     reads |-> 0, received |-> <<>>,
     rcall |-> [conn |-> Connected, wlen |-> Len(wire)]]

\* The transport has ended and the receive call has said so.
RecvFinished == rpc = "idle" /\ SawEOF(received)

\* C1: for every sequence of frames and every way of splitting its bytes into
\* transport reads, successive Receive calls return exactly the same sequence
\* of frames, byte for byte, as when all the bytes arrive in a single read.
SameFramesAsInOneRead ==
    RecvFinished => Frames(received) = Frames(RunWhole(FreshRecv))

\* The frame of the input that begins behind offset off, and whether the input
\* holds its delimiter.
FrameFrom(off) ==
    LET rest == SubSeq(input, off + 1, Len(input))
        i == IndexByte(rest, RS)
    IN [complete |-> i # 0,
        data |-> IF i # 0 THEN SubSeq(rest, 1, i - 1) ELSE rest]

\* C2: when one transport read delivers bytes beyond the first delimiter, those
\* bytes are neither lost nor duplicated: the next receive call returns the
\* frame they belong to, complete and unchanged.
BytesBehindDelimiterKept ==
    \A i \in 1..(Len(received) - 1) :
        (IsFrame(received[i]) /\ received[i].left > 0
            /\ FrameFrom(received[i].end).complete)
        => /\ IsFrame(received[i + 1])
           /\ received[i + 1].frame = FrameFrom(received[i].end).data

DecodeErrors == {"SyntaxError", "jsonError(SyntaxError)"}

\* C10: a syntactically malformed frame makes the receive path return a decode
\* error and nothing else happens: the connection state is unchanged, no
\* message is written to the client, and a following well-formed frame is
\* still received and decoded.
MalformedFrameOnlyFailsItself ==
    \A i \in 1..Len(received) :
        (IsFrame(received[i]) /\ ~Valid(received[i].frame))
        => /\ received[i].err \in DecodeErrors
           /\ received[i].conn = received[i].conn0
           /\ received[i].wlen = received[i].wlen0
           /\ (i < Len(received) /\ FrameFrom(received[i].end).complete
                 /\ Valid(FrameFrom(received[i].end).data))
              => /\ received[i + 1].err = "nil"
                 /\ received[i + 1].frame = FrameFrom(received[i].end).data

\* The message types of the protocol (spec, wire format).
MessageTypes == 1..7

\* The type tag of a well-formed frame, as the first pass of the decoder
\* reads it.
TypeOf(frame) == UnmarshalJSON(frame, "hubMessage").msg.Type

\* What the connection's protocol decodes the frame d to on its own.
Decode(d) ==
    IF protocol = "JsonHubProtocol"
    THEN [message |-> ReadMessage(d \o <<Delim>>).message,
          err |-> ReadMessage(d \o <<Delim>>).err]
    ELSE ParseData(d)

\* C11: a well-formed frame whose type tag is not a recognised message type
\* decodes without error to the minimal envelope (hubMessage) carrying that
\* same type value, and the frame that follows it in the input is still
\* received and decoded as it is decoded on its own.
UnknownTypeDecodesToEnvelope ==
    \A i \in 1..Len(received) :
        (IsFrame(received[i]) /\ Valid(received[i].frame)
            /\ TypeOf(received[i].frame) \notin MessageTypes)
        => /\ received[i].err = "nil"
           /\ received[i].message = hubMessage(TypeOf(received[i].frame))
           /\ (i < Len(received) /\ FrameFrom(received[i].end).complete)
              => /\ received[i + 1].frame = FrameFrom(received[i].end).data
                 /\ received[i + 1].message
                       = Decode(FrameFrom(received[i].end).data).message
                 /\ received[i + 1].err
                       = Decode(FrameFrom(received[i].end).data).err

-----------------------------------------------------------------------------
(* The codec on its own: claim C9 *)

ArgLists == {<<>>, <<GoRaw(JNum(1))>>, <<GoRaw(JStr("a")), GoRaw(JNum(2))>>}
StreamIdLists == {<<>>, <<"s1">>}
InvocationIds == {"", "1"}
Payloads == {GoNil, GoFloat(1), GoInt(2), GoString("a"), GoBool(TRUE)}

\* Messages of every kind.
Messages ==
    {invocationMessage(T, "t", id, a, sids) :
        T \in {1, 4}, id \in InvocationIds, a \in ArgLists,
        sids \in StreamIdLists}
    \cup {sendOnlyHubInvocationMessage("t", <<GoInt(1), GoString("a")>>)}
    \cup {streamItemMessage(id, v) : id \in InvocationIds, v \in Payloads}
    \cup {completionMessage(id, v, "") : id \in InvocationIds, v \in Payloads}
    \cup {completionMessage(id, GoNil, "x") : id \in InvocationIds}
    \cup {cancelInvocationMessage(id) : id \in InvocationIds}
    \cup {hubMessage(6)}
    \cup {closeMessage(e, r) : e \in {"", "x"}, r \in BOOLEAN}

\* The bytes WriteMessage hands to writer.Write for message m when no other
\* task uses the protocol.
WriteMessageBytes(m) ==
    IF protocol = "JsonHubProtocol" THEN WriteBytes(m)
    ELSE RawByte(MarshalEasyJSON(<<>>, m), RS)

\* What reading the bytes w, which arrive in one read, returns: the message
\* and the error.
ReadBackOf(w) ==
    IF protocol = "JsonHubProtocol"
    THEN [message |-> ReadMessage(w).message, err |-> ReadMessage(w).err]
    ELSE ParseData(ScanChunk(<<>>, w).data)

\* WriteMessage(m, writer) on a writer that keeps the bytes.
WriteMessage ==
    /\ sent = NilMessage
    /\ \E m \in Messages :
          /\ sent' = m
          /\ wire' = wire \o WriteMessageBytes(m)
    /\ UNCHANGED <<streamVars, protocol, Connected, easyWriter, task, last, closeCalled,
                   started, writes, recvVars, decoded>>

\* The peer reads the written bytes with the same protocol.
ReadBack ==
    /\ sent # NilMessage
    /\ decoded = <<>>
    /\ decoded' = <<ReadBackOf(wire)>>
    /\ UNCHANGED <<streamVars, protocol, connVars, recvVars, sent>>

NextCodec ==
    \/ WriteMessage
    \/ ReadBack

SpecCodec == Init /\ [][NextCodec]_vars

\* Two interface{} values are the same field value when they are the same
\* JSON value: a float64 and an int of one value are, and so are a value and
\* its still encoded json.RawMessage.
SameValue(a, b) == ToJSON(a) = ToJSON(b)

\* The same kind of message (the same type tag) with the same field values.
SameMessage(m, d) ==
    /\ m.Type = d.Type
    /\ m.Target = d.Target
    /\ m.InvocationID = d.InvocationID
    /\ MapSeq(ElemJSON, m.Arguments) = MapSeq(ElemJSON, d.Arguments)
    /\ m.StreamIds = d.StreamIds
    /\ SameValue(m.Item, d.Item)
    /\ SameValue(m.Result, d.Result)
    /\ m.Error = d.Error
    /\ m.AllowReconnect = d.AllowReconnect

\* C9: for every message kind (Invocation, StreamInvocation, StreamItem,
\* Completion, CancelInvocation, Ping, Close), decoding the frame produced by
\* encoding a message yields a message of the same kind with the same field
\* values.
RoundTrip ==
    decoded # <<>>
        => /\ decoded[1].err = "nil"
           /\ SameMessage(sent, decoded[1].message)

-----------------------------------------------------------------------------
(* streamClient: the upstream channels of client streaming *)

\* Operations of the stream client begun in one behaviour.
MaxStreamOps == 3

\* reflect.MakeChan(reflect.ChanOf(reflect.BothDir, elem), 0): an open channel
\* without buffer.  got is what its receiver has taken from it, in order; id
\* is the stream id it was made for; served says that the method it was made
\* for has been invoked with it.
MakeChan(elem, id) ==
    [elem |-> elem, id |-> id, closed |-> FALSE, closes |-> 0, got |-> <<>>,
     served |-> FALSE]

\* u.upstreamChannels[k] = v
Put(reg, k, v) ==
    [x \in (DOMAIN reg) \cup {k} |-> IF x = k THEN v ELSE reg[x]]

\* delete(u.upstreamChannels, k)
DeleteKept(reg, k) == reg
Delete(reg, k) == [x \in (DOMAIN reg) \ {k} |-> reg[x]]

\* The parameter is a channel the method can receive from: not
\* (argType.Kind() != reflect.Chan || argType.ChanDir() == reflect.SendDir).
IsClientStreamingAnyChan(argType) == argType.kind = "chan"
IsClientStreaming(argType) ==
    argType.kind = "chan" /\ argType.dir # "SendDir"

\* streamClient.buildChannelArgument on the registry reg and the channels ch:
\* (arg, canClientStreaming, err), and the registry and the channels after.
buildChannelArgument(reg, ch, invocation, argType, chanCount) ==
    IF ~IsClientStreaming(argType)
    THEN [arg |-> 0, canClientStreaming |-> FALSE, err |-> "nil",
          reg |-> reg, chans |-> ch]
    ELSE IF Len(invocation.StreamIds) > chanCount
    THEN
      LET arg == Len(ch) + 1
          id == invocation.StreamIds[chanCount + 1]
      IN [arg |-> arg, canClientStreaming |-> TRUE, err |-> "nil",
          reg |-> Put(reg, id, arg),
          chans |-> Append(ch, MakeChan(argType.elem, id))]
    ELSE [arg |-> 0, canClientStreaming |-> TRUE,
          err |-> "more chan parameters than the client will stream",
          reg |-> reg, chans |-> ch]

\* A panic that nothing recovers ends the process.
Crashed == \E t \in StreamTasks : stask[t].pc = "panicked"

\* The task is between two messages.
Ready(t) == ~Crashed /\ stask[t].pc = "idle"

\* The stream ids an invocation may declare and the parameter lists of the
\* hub methods it may name.
StreamIdChoices == {<<>>, <<"1">>, <<"1", "2">>}
Methods ==
    {<<>>,
     <<ChanOf("BothDir", "int")>>,
     <<TypeNamed("int"), ChanOf("RecvDir", "string")>>,
     <<ChanOf("BothDir", "[]int"), ChanOf("BothDir", "bool")>>,
     <<ChanOf("SendDir", "int")>>,
     <<ChanOf("BothDir", "interface {}")>>}

\* The dispatcher begins to bind the arguments of an invocation to the
\* parameters of the method it names.
Dispatch(t) ==
    /\ Ready(t)
    /\ streamOps < MaxStreamOps
    /\ streamOps' = streamOps + 1
    /\ \E ids \in StreamIdChoices, params \in Methods :
          stask' = [stask EXCEPT ![t] =
                      [IdleStream EXCEPT
                         !.pc = "binding",
                         !.inv = invocationMessage(1, "t", "7", <<>>, ids),
                         !.params = params, !.i = 1, !.chanCount = 0,
                         !.before = upstreamChannels,
                         !.chansBefore = chans]]
    /\ UNCHANGED <<upstreamChannels, chans, slast, invoked, calls, trace, protocol, input,
                   connVars, recvVars, codecVars>>

\* The dispatcher calls buildChannelArgument for the next parameter; an error
\* aborts the binding, a streaming parameter uses up one stream id.
BindArgument(t) ==
    /\ ~Crashed
    /\ stask[t].pc = "binding"
    /\ stask[t].i <= Len(stask[t].params)
    /\ LET s == stask[t]
           r == buildChannelArgument(upstreamChannels, chans, s.inv,
                                     s.params[s.i], s.chanCount)
       IN /\ upstreamChannels' = r.reg
          /\ chans' = r.chans
          /\ slast' = StreamDone("buildChannelArgument", "", s.params[s.i],
                                 s.chanCount, s.inv.StreamIds, r.arg,
                                 r.canClientStreaming, r.err, GoNil, 0, GoNil,
                                 upstreamChannels, chans)
          /\ stask' = [stask EXCEPT ![t] =
                IF r.err # "nil" THEN [s EXCEPT !.pc = "aborting"]
                ELSE [s EXCEPT !.i = s.i + 1,
                               !.chanCount = IF r.canClientStreaming
                                             THEN s.chanCount + 1
                                             ELSE s.chanCount]]
    /\ UNCHANGED <<streamOps, invoked, calls, trace, protocol, input, connVars, recvVars,
                   codecVars>>

\* The binding ends: with the error of buildChannelArgument, with an error
\* when the invocation declares more stream ids than the method has streaming
\* parameters, and otherwise with the method invoked.
BindingError(s) ==
    IF s.pc = "aborting" \/ Len(s.inv.StreamIds) > s.chanCount
    THEN "error" ELSE "nil"

EndBinding(t) ==
    /\ ~Crashed
    /\ \/ stask[t].pc = "aborting"
       \/ stask[t].pc = "binding" /\ stask[t].i > Len(stask[t].params)
    /\ LET s == stask[t] IN
          /\ slast' = StreamDone("bind", "", TypeNamed(""), s.chanCount,
                                 s.inv.StreamIds, 0, s.chanCount > 0,
                                 BindingError(s), GoNil, 0, GoNil, s.before,
                                 s.chansBefore)
          /\ invoked' = IF BindingError(s) = "nil"
                        THEN Append(invoked, s.inv.Target) ELSE invoked
          /\ chans' = [c \in DOMAIN chans |->
                         IF c > Len(s.chansBefore) /\ BindingError(s) = "nil"
                         THEN [chans[c] EXCEPT !.served = TRUE]
                         ELSE chans[c]]
    /\ stask' = [stask EXCEPT ![t] = IdleStream]
    /\ UNCHANGED <<upstreamChannels, streamOps, calls, trace, protocol, input, connVars,
                   recvVars, codecVars>>

\* The integer types convertNumberToChannelType narrows to, with their widths
\* where a number of the model can be too wide for them.
NarrowUnsigned == [uint8 |-> 256, uint16 |-> 65536]
NarrowSigned == [int8 |-> 256, int16 |-> 65536]
WideInts == {"int", "int32", "int64", "uint", "uint32", "uint64"}
Floats == {"float32", "float64"}

\* A value of a numeric Go type.
GoNum(t, n) == [t |-> t, j |-> "", n |-> n, s |-> "", l |-> <<>>]

\* fmt.Sprint of a float64 that has no fraction: its decimal digits.
Digit(d) == <<"0", "1", "2", "3", "4", "5", "6", "7", "8", "9">>[d + 1]
RECURSIVE Digits(_)
Digits(n) == IF n < 10 THEN Digit(n) ELSE Digits(n \div 10) \o Digit(n % 10)
Sprint(n) == IF n < 0 THEN "-" \o Digits(0 - n) ELSE Digits(n)

\* convertNumberToChannelType(chanElm, number) for a channel whose element
\* type is named elem: (chanVal, ok).  The numbers of the model have no
\* fraction; a conversion to a type that is too narrow keeps the low bits.
convertNumberToChannelType(elem, number) ==
    CASE elem \in WideInts
           -> [chanVal |-> GoNum(elem, number), ok |-> TRUE]
      [] elem \in DOMAIN NarrowUnsigned
           -> [chanVal |-> GoNum(elem, number % NarrowUnsigned[elem]),
               ok |-> TRUE]
      [] elem \in DOMAIN NarrowSigned
           -> [chanVal |->
                 GoNum(elem,
                       ((number + NarrowSigned[elem] \div 2)
                           % NarrowSigned[elem]) - NarrowSigned[elem] \div 2),
               ok |-> TRUE]
      [] elem \in Floats
           -> [chanVal |-> GoNum(elem, number), ok |-> TRUE]
      [] elem = "string"
           -> [chanVal |-> GoString(Sprint(number)), ok |-> TRUE]
      [] OTHER
           -> [chanVal |-> GoFloat(number), ok |-> FALSE]

\* reflect.TypeOf(streamItem.Item).Kind(); the Type of a nil interface is nil
\* and has no Kind.
ItemKind(item) ==
    CASE item.t = "nil" -> "nil Type"
      [] item.t = "[]interface {}" -> "slice"
      [] OTHER -> item.t

\* reflect.TypeOf(chanElm).Kind() for the zero value of the element type; the
\* zero value of an interface type is the nil interface.
ElemKind(elem) ==
    CASE elem = "interface {}" -> "nil Type"
      [] elem \in {"[]int", "[]string"} -> "slice"
      [] OTHER -> elem

\* reflect.Value.Send takes a value that is assignable to the element type.
Assignable(item, elem) == elem = "interface {}" \/ item.t = elem

\* What receiveStreamItem does with an item for a stream id that has no
\* channel: return nil.
UnknownIdError == "unknown stream id"
UnknownIdResult == "nil"

\* streamClient.receiveStreamItem up to the point where it returns or sends:
\*   return     it returns err without a send;
\*   Send       the caller sends val on channel ch (upChan.Send(chanVal));
\*   goSend     a goroutine sends val on ch and the caller waits for it;
\*   mismatch   the goroutine's Send panics on a value of another type;
\*   panic      the caller panics.
receiveStreamItem(reg, ch, streamItem) ==
    LET id == streamItem.InvocationID
        item == streamItem.Item
        none == [kind |-> "return", err |-> "nil", ch |-> 0, val |-> GoNil]
    IN
    IF id \notin DOMAIN reg THEN [none EXCEPT !.err = UnknownIdResult]
    ELSE
      LET upChan == reg[id]
          elem == ch[upChan].elem
      IN
      IF item.t = "float64"
      THEN
        LET c == convertNumberToChannelType(elem, item.n) IN
        IF c.ok THEN [kind |-> "Send", err |-> "nil", ch |-> upChan,
                      val |-> c.chanVal]
        ELSE none
      ELSE
        CASE ItemKind(item) = "nil Type" -> [none EXCEPT !.kind = "panic"]
          [] ItemKind(item) \in {"slice", "array"} ->
               CASE ElemKind(elem) = "nil Type" -> [none EXCEPT !.kind = "panic"]
                 [] ElemKind(elem) \in {"slice", "array"} -> none
                 [] OTHER -> [none EXCEPT !.err = "stream item paired with channel"]
          [] OTHER ->
               IF Assignable(item, elem)
               THEN [kind |-> "goSend", err |-> "nil", ch |-> upChan,
                     val |-> item]
               ELSE [none EXCEPT !.kind = "mismatch"]

\* A receiveCompletionItem that leaves the channel open and registered.
receiveCompletionItemNoOp(reg, ch, id) ==
    [reg |-> reg, chans |-> ch, panic |-> FALSE]

\* streamClient.receiveCompletionItem: the registry and the channels after,
\* and whether channel.Close() panicked (close of a closed channel).
receiveCompletionItem(reg, ch, id) ==
    IF id \in DOMAIN reg
    THEN [reg |-> Delete(reg, id),
          chans |-> [ch EXCEPT ![reg[id]].closed = TRUE,
                               ![reg[id]].closes = ch[reg[id]].closes + 1],
          panic |-> ch[reg[id]].closed]
    ELSE [reg |-> reg, chans |-> ch, panic |-> FALSE]

\* The stream ids and the items of the stream items the client sends, and the
\* ids of its stream completions.
StreamIdsSent == {"1", "2"}
ItemsSent ==
    {GoFloat(1), GoFloat(300), GoString("a"), GoSlice(<<Scalar(JNum(1))>>),
     GoNil}

\* What the deferred function of the sending goroutine hands to done when
\* Send panicked on a value of another type: err.(error) yields the error
\* when the recovered value is one, and panics itself when it is not.
MismatchOutcomes == {"error", "panic"}

\* What the stream client has seen, in order: a stream item or a completion
\* handed to it by task t, with the channel registered for its id at that time
\* (0 for none), and an item taken from channel ch by the channel's receiver,
\* with the place in this record of the stream item it came with.
Event(ev, t, id, ch, seq) ==
    [ev |-> ev, task |-> t, id |-> id, ch |-> ch, seq |-> seq]

\* u.upstreamChannels[id], 0 when there is no entry.
RegisteredFor(id) ==
    IF id \in DOMAIN upstreamChannels THEN upstreamChannels[id] ELSE 0

\* The stream item task t is routing: the last one it was handed.
LastItemOf(t) ==
    LET mine == {k \in 1..Len(trace) :
                    trace[k].ev = "item" /\ trace[k].task = t}
    IN IF mine = {} THEN 0
       ELSE CHOOSE k \in mine : \A h \in mine : h <= k

\* The record of a receiveStreamItem that has returned.
ItemDone(s, err, sentTo, val) ==
    StreamDone("receiveStreamItem", s.id, TypeNamed(""), 0, <<>>, 0, FALSE,
               err, s.item, sentTo, val, s.before, s.chansBefore)

\* The receive loop hands a stream item to receiveStreamItem, which returns,
\* panics, or begins to send on the channel.
ReceiveStreamItem(t) ==
    /\ Ready(t)
    /\ streamOps < MaxStreamOps
    /\ streamOps' = streamOps + 1
    /\ \E id \in StreamIdsSent, item \in ItemsSent, e \in MismatchOutcomes :
          LET o == receiveStreamItem(upstreamChannels, chans,
                                     streamItemMessage(id, item))
              s == [IdleStream EXCEPT !.id = id, !.item = item,
                                      !.ch = o.ch, !.val = o.val,
                                      !.before = upstreamChannels,
                                      !.chansBefore = chans]
          IN /\ trace' = Append(trace, Event("item", t, id,
                                             RegisteredFor(id), 0))
             /\ CASE o.kind = "return" ->
                    /\ slast' = ItemDone(s, o.err, 0, GoNil)
                    /\ UNCHANGED stask
               [] o.kind \in {"Send", "goSend"} ->
                    IF chans[o.ch].closed
                    THEN IF o.kind = "Send"
                         THEN /\ slast' = ItemDone(s, "panic", 0, GoNil)
                              /\ stask' = [stask EXCEPT ![t] =
                                              [s EXCEPT !.pc = "panicked"]]
                         ELSE /\ slast' = ItemDone(s, "send on closed channel",
                                                   0, GoNil)
                              /\ UNCHANGED stask
                    ELSE /\ stask' = [stask EXCEPT ![t] =
                                         [s EXCEPT !.pc = o.kind]]
                         /\ UNCHANGED slast
               [] o.kind = "mismatch" /\ e = "error" ->
                    /\ slast' = ItemDone(s, "error", 0, GoNil)
                    /\ UNCHANGED stask
               [] OTHER ->
                    /\ slast' = ItemDone(s, "panic", 0, GoNil)
                    /\ stask' = [stask EXCEPT ![t] =
                                    [s EXCEPT !.pc = "panicked"]]
    /\ UNCHANGED <<upstreamChannels, chans, invoked, calls, protocol, input,
                   connVars, recvVars, codecVars>>

\* The hub method that was invoked with the channel task t sends on receives
\* from it: the send completes and receiveStreamItem returns nil.  A channel of
\* a binding that was aborted has no receiver.
ChanRecv(t) ==
    /\ ~Crashed
    /\ stask[t].pc \in {"Send", "goSend"}
    /\ LET c == stask[t].ch IN
          /\ chans[c].served
          /\ ~chans[c].closed
          /\ chans' = [chans EXCEPT ![c].got = Append(chans[c].got,
                                                      stask[t].val)]
          /\ slast' = ItemDone(stask[t], "nil", c, stask[t].val)
          /\ trace' = Append(trace, Event("delivered", t, stask[t].id, c,
                                          LastItemOf(t)))
          /\ stask' = [stask EXCEPT ![t] = IdleStream]
    /\ UNCHANGED <<upstreamChannels, streamOps, invoked, calls, protocol, input,
                   connVars, recvVars, codecVars>>

\* A sender that waits on a channel when it is closed: upChan.Send panics,
\* in the caller of receiveStreamItem or in its goroutine, which recovers.
AfterClose(s, c) ==
    IF s.ch = c /\ s.pc = "Send" THEN [s EXCEPT !.pc = "panicked"]
    ELSE IF s.ch = c /\ s.pc = "goSend" THEN IdleStream
    ELSE s

\* The receive loop hands a completion of a stream to receiveCompletionItem.
ReceiveCompletionItem(t) ==
    /\ Ready(t)
    /\ streamOps < MaxStreamOps
    /\ streamOps' = streamOps + 1
    /\ \E id \in StreamIdsSent :
          LET r == receiveCompletionItem(upstreamChannels, chans, id)
              c == IF id \in DOMAIN upstreamChannels
                   THEN upstreamChannels[id] ELSE 0
          IN /\ upstreamChannels' = r.reg
             /\ chans' = r.chans
             /\ trace' = Append(trace, Event("completion", t, id, c, 0))
             /\ slast' = StreamDone("receiveCompletionItem", id,
                                    TypeNamed(""), 0, <<>>, c, FALSE,
                                    IF r.panic THEN "panic" ELSE "nil",
                                    GoNil, 0, GoNil, upstreamChannels, chans)
             /\ stask' = [u \in DOMAIN stask |->
                            IF u = t /\ r.panic
                            THEN [stask[u] EXCEPT !.pc = "panicked"]
                            ELSE AfterClose(stask[u], c)]
    /\ UNCHANGED <<invoked, calls, protocol, input, connVars, recvVars,
                   codecVars>>

\* A started connection with its stream client: the receive loop dispatches
\* invocations and routes stream items and completions, and the hub methods
\* receive from their channels.
InitStreaming ==
    /\ protocol = "JsonHubProtocol"
    /\ input = <<>>
    /\ Connected = 1
    /\ InitWriters
    /\ InitRecv
    /\ InitCodec
    /\ InitStream

DispatchInvocation == \E t \in StreamTasks : Dispatch(t)
BuildChannelArgument == \E t \in StreamTasks : BindArgument(t)
InvokeOrAbort == \E t \in StreamTasks : EndBinding(t)
RouteStreamItem == \E t \in StreamTasks : ReceiveStreamItem(t)
RouteCompletion == \E t \in StreamTasks : ReceiveCompletionItem(t)
MethodReceives == \E t \in StreamTasks : ChanRecv(t)

NextStream ==
    \/ DispatchInvocation
    \/ BuildChannelArgument
    \/ InvokeOrAbort
    \/ RouteStreamItem
    \/ RouteCompletion
    \/ MethodReceives

SpecStream == InitStreaming /\ [][NextStream]_vars

\* The same, on a connection that may be closed meanwhile.
InitStreamingClose ==
    /\ protocol \in Protocols
    /\ input = <<>>
    /\ Connected = 1
    /\ InitWriters
    /\ InitRecv
    /\ InitCodec
    /\ InitStream

NextStreamClose ==
    \/ NextStream
    \/ Close
    \/ WriteMessageStep

SpecStreamClose == InitStreamingClose /\ [][NextStreamClose]_vars

-----------------------------------------------------------------------------
(* The stream client: claims C12 to C17, C19 and C20 *)

\* The channels that were made for stream id and are closed.
ClosedFor(ch, id) == {c \in DOMAIN ch : ch[c].id = id /\ ch[c].closed}

\* C12: a stream item whose invocation id has no registered upstream channel
\* (never registered, or already completed) is a no-op: receiveStreamItem
\* returns no error, sends to no channel, and leaves the registry (and every
\* channel) exactly as it was.
UnknownStreamItemIsNoOp ==
    (slast.op = "receiveStreamItem" /\ slast.id \notin DOMAIN slast.before)
        => /\ slast.err = "nil"
           /\ slast.sentTo = 0
           /\ upstreamChannels = slast.before
           /\ chans = slast.chansBefore

\* A stream item for an id whose stream has been completed before.
ItemAfterCompletion ==
    /\ slast.op = "receiveStreamItem"
    /\ slast.id \notin DOMAIN slast.before
    /\ ClosedFor(slast.chansBefore, slast.id) # {}

\* C13: a stream completion for a registered id closes that id's channel
\* exactly once and removes its registry entry, leaving the other entries; a
\* second completion for the same id, or a completion for an unknown id,
\* changes nothing and does not fail.
CompletionClosesOnce ==
    /\ \A c \in DOMAIN chans : chans[c].closes <= 1
    /\ slast.op = "receiveCompletionItem"
         => /\ slast.err = "nil"
            /\ IF slast.id \in DOMAIN slast.before
               THEN /\ chans[slast.before[slast.id]].closed
                    /\ ~slast.chansBefore[slast.before[slast.id]].closed
                    /\ DOMAIN upstreamChannels
                          = DOMAIN slast.before \ {slast.id}
                    /\ \A k \in DOMAIN upstreamChannels :
                          upstreamChannels[k] = slast.before[k]
               ELSE /\ upstreamChannels = slast.before
                    /\ chans = slast.chansBefore

\* A second completion for a stream id whose channel the first one closed.
SecondCompletion ==
    /\ slast.op = "receiveCompletionItem"
    /\ slast.id \notin DOMAIN slast.before
    /\ ClosedFor(slast.chansBefore, slast.id) # {}

\* The parameter type is a channel the method can receive from.
ReceiveCapable(argType) ==
    argType.kind = "chan" /\ argType.dir \in {"RecvDir", "BothDir"}

\* C14: for a parameter that is a receive-capable channel, with stream index
\* i, buildChannelArgument makes a new channel and registers it under the
\* invocation's StreamIds[i] when i is less than the number of declared stream
\* ids, and otherwise fails with an error and leaves the registry unchanged;
\* for any other parameter it reports "not streaming" without error and
\* leaves the registry unchanged.
BuildChannelArgumentBinds ==
    slast.op = "buildChannelArgument"
        => IF ReceiveCapable(slast.argType)
           THEN IF slast.chanCount < Len(slast.ids)
                THEN /\ slast.err = "nil"
                     /\ slast.streaming
                     /\ slast.arg = Len(slast.chansBefore) + 1
                     /\ Len(chans) = Len(slast.chansBefore) + 1
                     /\ ~chans[slast.arg].closed
                     /\ chans[slast.arg].elem = slast.argType.elem
                     /\ SubSeq(chans, 1, Len(slast.chansBefore))
                           = slast.chansBefore
                     /\ DOMAIN upstreamChannels
                           = DOMAIN slast.before
                               \cup {slast.ids[slast.chanCount + 1]}
                     /\ upstreamChannels[slast.ids[slast.chanCount + 1]]
                           = slast.arg
                     /\ \A k \in DOMAIN slast.before :
                           k # slast.ids[slast.chanCount + 1]
                             => upstreamChannels[k] = slast.before[k]
                ELSE /\ slast.err # "nil"
                     /\ slast.arg = 0
                     /\ upstreamChannels = slast.before
                     /\ chans = slast.chansBefore
           ELSE /\ slast.err = "nil"
                /\ ~slast.streaming
                /\ slast.arg = 0
                /\ upstreamChannels = slast.before
                /\ chans = slast.chansBefore

\* A streaming parameter for which the invocation has no stream id left.
MoreChanParametersThanIds ==
    /\ slast.op = "buildChannelArgument"
    /\ ReceiveCapable(slast.argType)
    /\ slast.chanCount >= Len(slast.ids)
    /\ slast.chanCount > 0

\* C15: if an invocation declares more stream ids than the invoked method has
\* streaming parameters, binding the method's arguments reports an error and
\* the call is aborted, so that no upstream channel made by this binding
\* stays registered.
SurplusStreamIdsAbort ==
    (slast.op = "bind" /\ Len(slast.ids) > slast.chanCount)
        => /\ slast.err # "nil"
           /\ \A k \in DOMAIN upstreamChannels :
                 upstreamChannels[k] <= Len(slast.chansBefore)

\* C17: at most one channel per stream id: after any sequence of bindings,
\* stream items and stream completions there is never more than one live
\* upstream channel (made and not yet closed) for any one stream id.
OneLiveChannelPerStreamId ==
    \A c, d \in DOMAIN chans :
        (chans[c].id = chans[d].id /\ ~chans[c].closed /\ ~chans[d].closed)
            => c = d

\* An item is on its way into a channel: receiveStreamItem waits in upChan.Send
\* (or for the goroutine that does) until the method receives it.
ItemInFlight == \E t \in StreamTasks : stask[t].pc \in {"Send", "goSend"}

\* C19: routing a stream item into an upstream channel whose consumer is not
\* receiving does not stop the connection's receive loop: while the item
\* waits, the loop is ready for the next message (a stream completion, an
\* item for another id, another invocation).
ReceiveLoopGoesOn ==
    \A t \in StreamTasks :
        stask[t].pc \in {"Send", "goSend"} => \E u \in StreamTasks : Ready(u)

\* The element type is a sequence type.
SequenceType(elem) == elem \in {"[]int", "[]string"}

\* The operation did not return nil: it returned an error, or it panicked.
ReportedError(r) == r.err # "nil"

\* C20: a stream item for a registered id is never silently dropped: a
\* list-valued item is sent into the channel when the channel's element type
\* is a sequence type and returns an error when it is not, and every other
\* item is either sent into the channel (a number converted to the channel's
\* type) or reported as an error.
ItemSentOrReported ==
    (slast.op = "receiveStreamItem" /\ slast.id \in DOMAIN slast.before)
        => LET c == slast.before[slast.id]
               elem == slast.chansBefore[c].elem
           IN /\ slast.sentTo = c \/ ReportedError(slast)
              /\ slast.item.t = "[]interface {}"
                   => IF SequenceType(elem) THEN slast.sentTo = c
                      ELSE ReportedError(slast)
              /\ (slast.sentTo = c /\ slast.item.t = "float64")
                   => slast.val.t = elem

\* C16: when the connection closes, every upstream channel still in the
\* registry is closed and removed: when Close returns, the registry is empty,
\* every channel is closed, and no task is left waiting to send into an
\* upstream channel.
CloseDrainsChannels ==
    [][(last'.op = "Close" /\ last' # last)
          => /\ upstreamChannels' = EmptyRegistry
             /\ \A c \in DOMAIN chans' : chans'[c].closed
             /\ \A t \in StreamTasks :
                   stask'[t].pc \notin {"Send", "goSend"}]_vars

\* The places in trace where an item was taken from an upstream channel.
Deliveries == {k \in 1..Len(trace) : trace[k].ev = "delivered"}

\* C21: the items for one stream id are delivered into its upstream channel
\* in the order in which their stream items were received, each at most
\* once, and none after the completion for that id has been processed.  Every
\* delivery is of a stream item that arrived before it, for the same id, into
\* the channel registered for the id when the item arrived; no two
\* deliveries are of the same stream item; the deliveries into one channel
\* follow the order of arrival; and nothing is delivered into a channel after
\* the completion that closed it.
ItemsDeliveredInOrder ==
    \A k \in Deliveries :
       /\ trace[k].seq \in 1..(k - 1)
       /\ trace[trace[k].seq].ev = "item"
       /\ trace[trace[k].seq].id = trace[k].id
       /\ trace[trace[k].seq].ch = trace[k].ch
       /\ trace[k].ch # 0
       /\ \A h \in Deliveries :
             /\ h # k => trace[h].seq # trace[k].seq
             /\ (h < k /\ trace[h].ch = trace[k].ch)
                   => trace[h].seq < trace[k].seq
       /\ \A h \in 1..(k - 1) :
             ~(trace[h].ev = "completion" /\ trace[h].ch = trace[k].ch)
       /\ Len(chans[trace[k].ch].got)
             = Cardinality({h \in Deliveries : trace[h].ch = trace[k].ch})

\* Two stream items for one stream id have been delivered into its channel.
TwoItemsDelivered ==
    \E h, k \in Deliveries :
       /\ h < k
       /\ trace[h].ch = trace[k].ch
       /\ trace[h].id = trace[k].id

-----------------------------------------------------------------------------
(* The invocation dispatcher and its completions: claim C18 *)

\* The methods of invocationHub with the types of their parameters.
HubMethods ==
    [Simple |-> <<>>, SimpleInt |-> <<"int">>, AsyncClosedChan |-> <<>>,
     Panic |-> <<>>]

\* strings.ToLower for the names of the model.
ToLower(name) ==
    CASE name = "Simple" -> "simple"
      [] name = "SimpleInt" -> "simpleint"
      [] name = "AsyncClosedChan" -> "asyncclosedchan"
      [] name = "Panic" -> "panic"
      [] OTHER -> name

\* The methods a target names, whatever the case of its letters.
MethodsNamed(target) ==
    {name \in DOMAIN HubMethods : ToLower(name) = ToLower(target)}

\* JSONHubProtocol.UnmarshalArgument(argument, value) for a value of the named
\* type: json.Unmarshal of the raw argument, its error wrapped in a jsonError.
UnmarshalArgument(argument, type) ==
    CASE type = "int" /\ argument.j = "num" -> "nil"
      [] type = "string" /\ argument.j = "str" -> "nil"
      [] OTHER -> jsonError("UnmarshalTypeError")

\* What the hub method does when it is invoked with the decoded arguments:
\* whether it panics, the result it returns, and whether that result is a
\* channel that is closed without a value.
Invoke(name, arguments) ==
    CASE name = "SimpleInt" ->
           [panic |-> FALSE, result |-> GoInt(arguments[1].n + 1),
            closedChan |-> FALSE]
      [] name = "Panic" ->
           [panic |-> TRUE, result |-> GoNil, closedChan |-> FALSE]
      [] name = "AsyncClosedChan" ->
           [panic |-> FALSE, result |-> GoNil, closedChan |-> TRUE]
      [] OTHER ->
           [panic |-> FALSE, result |-> GoNil, closedChan |-> FALSE]

\* The dispatcher on one invocation: which failure it met ("none" when the
\* call succeeded), whether the method was invoked, and the result and the
\* error text of the Completion it answers with.
Handled(invocation) ==
    LET found == MethodsNamed(invocation.Target)
        call(failure, ran, result, error) ==
            [id |-> invocation.InvocationID, target |-> invocation.Target,
             failure |-> failure, ran |-> ran, result |-> result,
             error |-> error]
    IN
    IF found = {} THEN call("missing method", "", GoNil, "unknown method")
    ELSE
      LET name == CHOOSE n \in found : TRUE
          params == HubMethods[name]
          bad == {i \in 1..Len(params) :
                    UnmarshalArgument(invocation.Arguments[i], params[i])
                        # "nil"}
      IN
      IF bad # {} THEN call("argument", "", GoNil, "cannot decode argument")
      ELSE
        LET r == Invoke(name, invocation.Arguments) IN
        IF r.panic THEN call("panic", name, GoNil, "method panicked")
        ELSE IF r.closedChan
        THEN call("closed channel", name, GoNil, "result channel closed")
        ELSE call("none", name, r.result, "")

\* The invocations the client sends: those of the tests of invocationHub, and
\* one that names a method in other letters.
InvocationsSent ==
    {invocationMessage(1, target, id, <<>>, <<>>) :
        target \in {"simple", "asyncclosedchan", "panic", "missing", "PANIC"},
        id \in {"555", "0000"}}
    \cup {invocationMessage(1, "simpleint", id, <<a>>, <<>>) :
            a \in {GoRaw(JNum(314)), GoRaw(JStr("CantParse"))},
            id \in {"555", "0000"}}

\* The receive loop hands an invocation to the dispatcher once the answer to
\* the one before has been written.
HandleInvocation ==
    /\ Len(calls) < MaxOps
    /\ started = Len(calls)
    /\ task[0].pc = "idle"
    /\ \E invocation \in InvocationsSent :
          LET h == Handled(invocation) IN
            /\ calls' = Append(calls, h)
            /\ invoked' = IF h.ran = "" THEN invoked
                          ELSE Append(invoked, h.ran)
    /\ UNCHANGED <<upstreamChannels, chans, stask, slast, streamOps, trace,
                   protocol, input, connVars, recvVars, codecVars>>

\* The dispatcher answers the invocation with Completion(id, result, error).
AnswerInvocation ==
    /\ started < Len(calls)
    /\ Call(0, "Completion",
            completionMessage(calls[started + 1].id,
                              calls[started + 1].result,
                              calls[started + 1].error))

InitDispatch ==
    /\ protocol \in Protocols
    /\ input = <<>>
    /\ Connected = 1
    /\ InitWriters
    /\ InitRecv
    /\ InitCodec
    /\ InitStream

NextDispatch ==
    \/ HandleInvocation
    \/ AnswerInvocation
    \/ WriteMessageStep

SpecDispatch == InitDispatch /\ [][NextDispatch]_vars

\* The answer to the last invocation has reached the transport.
Answered ==
    /\ calls # <<>>
    /\ started = Len(calls)
    /\ task[0].pc = "idle"
    /\ last.op = "Completion"
    /\ last.writeOk

\* The last frame on the transport, decoded as the client decodes it.
LastFrame == Decode(SplitFrames(wire)[Len(SplitFrames(wire))])

-----------------------------------------------------------------------------
(* The registry used by several tasks at once: claim C22 *)

\* The tasks that use one stream client at the same time: one binds the
\* arguments of invocations, one routes stream items, one handles the
\* completions of streams.
RegistryTasks == {"binding", "routing", "completion"}

\* Task t is inside an access to the map u.upstreamChannels: the store of
\* buildChannelArgument, the lookup of receiveStreamItem or of
\* receiveCompletionItem, the delete of receiveCompletionItem.  streamClient
\* has no lock, so nothing keeps another task out meanwhile.
InRegistry(t) == stask[t].pc \in {"store", "lookup", "delete"}

\* Two tasks are inside the map at once and one of them writes it.
DataRace ==
    \E s, t \in RegistryTasks :
       s # t /\ InRegistry(s) /\ stask[t].pc \in {"store", "delete"}

\* The process has ended: by a panic no one recovers, or by the runtime's
\* fatal error for a map that is written while it is used.
Halted == \E t \in RegistryTasks : stask[t].pc \in {"panicked", "fatal"}

\* What the steps of the tasks leave alone.
registryRest ==
    <<slast, invoked, calls, trace, protocol, input, connVars, recvVars,
      codecVars>>

\* buildChannelArgument is called for a receive-capable channel parameter
\* and the next stream id, and comes to its store into the map.
BeginBinding ==
    /\ ~Halted
    /\ stask["binding"].pc = "idle"
    /\ streamOps < MaxStreamOps
    /\ streamOps' = streamOps + 1
    /\ \E id \in StreamIdsSent :
          stask' = [stask EXCEPT !["binding"] =
                      [IdleStream EXCEPT !.pc = "store", !.id = id]]
    /\ UNCHANGED <<upstreamChannels, chans, registryRest>>

\* u.upstreamChannels[id] = upChan; the method is invoked with the channel
\* and receives from it.
StoreChannel ==
    /\ ~Halted
    /\ stask["binding"].pc = "store"
    /\ LET r == buildChannelArgument(
                   upstreamChannels, chans,
                   invocationMessage(1, "t", "7", <<>>,
                                     <<stask["binding"].id>>),
                   ChanOf("BothDir", "int"), 0)
       IN /\ upstreamChannels' = r.reg
          /\ chans' = [r.chans EXCEPT ![Len(r.chans)].served = TRUE]
    /\ stask' = [stask EXCEPT !["binding"] = IdleStream]
    /\ UNCHANGED <<streamOps, registryRest>>

\* receiveStreamItem is called with a stream item and comes to its lookup.
BeginRouting ==
    /\ ~Halted
    /\ stask["routing"].pc = "idle"
    /\ streamOps < MaxStreamOps
    /\ streamOps' = streamOps + 1
    /\ \E id \in StreamIdsSent, item \in ItemsSent :
          stask' = [stask EXCEPT !["routing"] =
                      [IdleStream EXCEPT !.pc = "lookup", !.id = id,
                                         !.item = item]]
    /\ UNCHANGED <<upstreamChannels, chans, registryRest>>

\* The lookup of receiveStreamItem and what follows it up to the send: the
\* call returns, panics, or has a value to send on the channel it found.
LookupChannel ==
    /\ ~Halted
    /\ stask["routing"].pc = "lookup"
    /\ \E e \in MismatchOutcomes :
          LET s == stask["routing"]
              o == receiveStreamItem(upstreamChannels, chans,
                                     streamItemMessage(s.id, s.item))
          IN stask' = [stask EXCEPT !["routing"] =
                CASE o.kind = "return" -> IdleStream
                  [] o.kind \in {"Send", "goSend"} ->
                       [s EXCEPT !.pc = o.kind, !.ch = o.ch, !.val = o.val]
                  [] o.kind = "mismatch" /\ e = "error" -> IdleStream
                  [] OTHER -> [s EXCEPT !.pc = "panicked"]]
    /\ UNCHANGED <<upstreamChannels, chans, streamOps, registryRest>>

\* upChan.Send: the method takes the value, or the channel is closed and the
\* send panics, in receiveStreamItem or in its goroutine, which recovers.
SendItem ==
    /\ ~Halted
    /\ stask["routing"].pc \in {"Send", "goSend"}
    /\ LET s == stask["routing"] IN
          IF chans[s.ch].closed
          THEN /\ stask' = [stask EXCEPT !["routing"] =
                              IF s.pc = "Send"
                              THEN [s EXCEPT !.pc = "panicked"]
                              ELSE IdleStream]
               /\ UNCHANGED chans
          ELSE /\ chans[s.ch].served
               /\ chans' = [chans EXCEPT ![s.ch].got =
                               Append(chans[s.ch].got, s.val)]
               /\ stask' = [stask EXCEPT !["routing"] = IdleStream]
    /\ UNCHANGED <<upstreamChannels, streamOps, registryRest>>

\* receiveCompletionItem is called with a completion and comes to its lookup.
BeginCompletion ==
    /\ ~Halted
    /\ stask["completion"].pc = "idle"
    /\ streamOps < MaxStreamOps
    /\ streamOps' = streamOps + 1
    /\ \E id \in StreamIdsSent :
          stask' = [stask EXCEPT !["completion"] =
                      [IdleStream EXCEPT !.pc = "lookup", !.id = id]]
    /\ UNCHANGED <<upstreamChannels, chans, registryRest>>

\* channel, ok := u.upstreamChannels[completion.InvocationID]
FindChannel ==
    /\ ~Halted
    /\ stask["completion"].pc = "lookup"
    /\ LET s == stask["completion"] IN
          stask' = [stask EXCEPT !["completion"] =
                      IF s.id \in DOMAIN upstreamChannels
                      THEN [s EXCEPT !.pc = "close",
                                     !.ch = upstreamChannels[s.id]]
                      ELSE IdleStream]
    /\ UNCHANGED <<upstreamChannels, chans, streamOps, registryRest>>

\* channel.Close(), which panics on a closed channel; the delete is next.
CloseChannel ==
    /\ ~Halted
    /\ stask["completion"].pc = "close"
    /\ LET s == stask["completion"] IN
          IF chans[s.ch].closed
          THEN /\ stask' = [stask EXCEPT !["completion"].pc = "panicked"]
               /\ UNCHANGED chans
          ELSE /\ chans' = [chans EXCEPT
                              ![s.ch].closed = TRUE,
                              ![s.ch].closes = chans[s.ch].closes + 1]
               /\ stask' = [stask EXCEPT !["completion"].pc = "delete"]
    /\ UNCHANGED <<upstreamChannels, streamOps, registryRest>>

\* delete(u.upstreamChannels, completion.InvocationID)
DeleteEntry ==
    /\ ~Halted
    /\ stask["completion"].pc = "delete"
    /\ upstreamChannels' = Delete(upstreamChannels, stask["completion"].id)
    /\ stask' = [stask EXCEPT !["completion"] = IdleStream]
    /\ UNCHANGED <<chans, streamOps, registryRest>>

\* A map that is written while another task uses it: the runtime may end
\* the process with a fatal error, or the accesses go on as they happen to.
MapFault ==
    /\ ~Halted
    /\ DataRace
    /\ stask' = [t \in RegistryTasks |-> [stask[t] EXCEPT !.pc = "fatal"]]
    /\ UNCHANGED <<upstreamChannels, chans, streamOps, registryRest>>

\* A stream client with an empty registry and its three tasks.
InitRegistry ==
    /\ protocol = "JsonHubProtocol"
    /\ input = <<>>
    /\ Connected = 1
    /\ InitWriters
    /\ InitRecv
    /\ InitCodec
    /\ upstreamChannels = EmptyRegistry
    /\ chans = <<>>
    /\ stask = [t \in RegistryTasks |-> IdleStream]
    /\ slast = NoStreamOp
    /\ streamOps = 0
    /\ invoked = <<>>
    /\ calls = <<>>
    /\ trace = <<>>

NextRegistry ==
    \/ BeginBinding
    \/ StoreChannel
    \/ BeginRouting
    \/ LookupChannel
    \/ SendItem
    \/ BeginCompletion
    \/ FindChannel
    \/ CloseChannel
    \/ DeleteEntry
    \/ MapFault

SpecRegistry == InitRegistry /\ [][NextRegistry]_vars

\* C22: access to the upstream channel registry is synchronized: with
\* binding, stream-item routing and stream completion in different tasks, no
\* task writes the registry while another task reads or writes it, and no
\* task sends an item into a channel that has already been closed.
RegistrySynchronized ==
    /\ ~DataRace
    /\ \A t \in RegistryTasks :
          stask[t].pc \in {"Send", "goSend"} => ~chans[stask[t].ch].closed

====
